---- MODULE Spec2Model ----
(***************************************************************************)
(* Transport layer of the proxy service (package transportv1).             *)
(*                                                                         *)
(* One behaviour of the model is one RPC session seen from one program:    *)
(*   side = "server"   Service.ProxySSH handling a host session, with the  *)
(*                     client, the Dialer and the agent user as inputs;    *)
(*   side = "client"   Client.DialHost and the connection it returns, with *)
(*                     the ProxySSH server as input;                       *)
(*   side = "cluster"  Client.DialCluster and the connection it returns.   *)
(* Goroutines are tasks with a program counter; a blocking channel         *)
(* operation is an action that is enabled when the operation can proceed.  *)
(***************************************************************************)
EXTENDS Integers, Sequences, FiniteSets, TLC

\* make(chan []byte, 10): the capacity of every incomingC
QueueCap == 10
\* make(chan error, 1): the capacity of errorC
ErrorCap == 1

\* bounds of the model
MaxBulk == 11
MaxMixed == 1
MaxLen == 2
MaxSent == 2
MaxWrites == 1
MaxAgentReq == 2

Tags == {"ssh", "agent"}
Bytes == {0, 1}
NoFrame == <<"none", <<>>>>

\* the byte sequences a caller writes: of length 1..MaxLen, starting with
\* either byte and alternating, so that every position is told from the next
Payloads == {[i \in 1..n |-> (b + i + 1) % 2] : n \in 1..MaxLen, b \in Bytes}

Min(a, b) == IF a < b THEN a ELSE b

Last(s) == s[Len(s)]

Take(s, n) == SubSeq(s, 1, Min(n, Len(s)))
Drop(s, n) == SubSeq(s, Min(n, Len(s)) + 1, Len(s))

IsPrefix(s, t) == Len(s) <= Len(t) /\ SubSeq(t, 1, Len(s)) = s

VARIABLES
  sending,       \* the tasks that are inside stream.Send of the parent stream
  side,          \* the program of this behaviour
  load,          \* what the peer sends: "mixed" (a few frames of every kind), "bulk"
                 \* (many ssh frames) or "echo" (every payload it receives)
  pc,            \* task -> the statement it is at
  fips,          \* ServerConfig.FIPS
  \* ---- Service.ProxySSH
  hret,          \* what ProxySSH returned, "none" while it runs
  dialCalls,     \* invocations of Dialer.DialHost
  conn,          \* the destination connection: "none" | "open" | "closed"
  srvSent,       \* the messages sent on the stream, in order
  srvStream,     \* "open" | "eof" | "cancelled": how stream.Recv ends
  srvIncomingC,  \* tag -> sshStream.incomingC
  srvDone,       \* tag -> sshStream.done is closed
  srvHold,       \* the frame the multiplexer is about to enqueue
  srvRcvd,       \* tag -> payloads the multiplexer received, in order
  srvGot,        \* tag -> payloads returned by sshStream.Recv, in order
  srvOther,      \* the last frame received had neither tag (logged and skipped)
  closeSaw,      \* task -> done was closed when the task's Close began
  closeLog,      \* the last return of a Close: <<closed at entry, closed at return>>
  panicked,      \* "no", or how a closed channel came to be closed again
  destWritten,   \* payloads written to the destination connection
  destRead,      \* frames read from the destination connection
  \* ---- Client.DialHost, Client.DialCluster and the connection they return
  keyring,       \* DialHost was given a keyring (not nil)
  cltConn,       \* the connection returned: "nil" | "conn"
  cltDetails,    \* the cluster details returned: "nil" | "fips" | "nofips"
  cltErr,        \* the error returned, "nil" for none, "none" while dialing
  firstResp,     \* what the first stream.Recv of DialHost received
  cltStream,     \* "open" | "eof" | "error": how stream.Recv ends
  cltSent,       \* the messages sent on the stream, in order
  cltIncomingC,  \* tag -> sshStream.incomingC
  cltErrorC,     \* tag -> sshStream.errorC
  cltHold,       \* the frame the multiplexer is about to enqueue
  cltRcvd,       \* stream -> payloads received from the parent stream, in order
  cltGot,        \* stream -> payloads returned by Recv, in order
  cltOther,      \* the last response received had neither frame (or no frame)
  served,        \* how often agent.ServeAgent was started
  readAt,        \* how many payloads the caller had written when it called Read
  rBytes,        \* ReadWriter.rBytes of the connection: the rest of a frame
  readN,         \* the size of the buffer of the Read in progress
  reads,         \* Reads that returned (counted to 2)
  lastRead,      \* what the last Read returned: <<bytes, error>>
  lastWrite,     \* what the last Write returned: <<n, error>>
  cltClosed      \* the connection's close state

srvVars == <<hret, dialCalls, conn, srvSent, srvStream, srvIncomingC, srvDone,
             srvHold, srvRcvd, srvGot, srvOther,
             closeSaw, closeLog, panicked, destWritten, destRead>>

hVars == <<hret, dialCalls, conn>>
strmVars == <<srvSent, srvStream>>
qVars == <<srvIncomingC, srvDone>>
muxVars == <<srvHold, srvRcvd, srvOther>>
recvVars == <<srvGot>>
closeVars == <<closeSaw, closeLog, panicked>>
destVars == <<destWritten, destRead>>
cfgVars == <<side, load, fips, keyring>>
quietVars == <<cfgVars, sending>>

cltVars == <<cltConn, cltDetails, cltErr, firstResp, cltStream, cltSent,
             cltIncomingC, cltErrorC, cltHold, cltRcvd, cltGot, cltOther, served,
             rBytes, readN, readAt, reads, lastRead, lastWrite, cltClosed>>
retVars == <<cltConn, cltDetails, cltErr, firstResp>>
cqVars == <<cltIncomingC, cltErrorC>>
cmuxVars == <<cltHold, cltRcvd, cltOther, served>>
readVars == <<cltGot, rBytes, readN, readAt, reads, lastRead>>

vars == <<side, load, pc, fips, keyring, sending, srvVars, cltVars>>

SrvTasks == {"handler", "mux", "copyIn", "copyOut", "agentUser"}
CltTasks == {"caller", "cmux", "serveAgent"}
Tasks == SrvTasks \cup CltTasks
\* the client's sources: the two sshStreams of DialHost, the clusterStream
CltStreams == Tags \cup {"cluster"}

Goto(t, l) == pc' = [pc EXCEPT ![t] = l]


(***************************************************************************)
(* net.SplitHostPort on strings over the letters h and ":" (no brackets):  *)
(* the port follows the last colon, and the host may hold no colon.        *)
(***************************************************************************)
HostPortChars == {"h", ":"}
HostPorts == UNION {[1..n -> HostPortChars] : n \in 0..3}

Colons(hp) == {i \in 1..Len(hp) : hp[i] = ":"}

SplitHostPort(hp) ==
  IF Colons(hp) = {} THEN "missing port"
  ELSE LET i == CHOOSE k \in Colons(hp) : \A j \in Colons(hp) : j <= k
       IN IF \E j \in Colons(hp) : j < i THEN "too many colons" ELSE "ok"

(***************************************************************************)
(* sshStream of the server: newSSHStream, Close, Recv, Send.               *)
(***************************************************************************)
newSSHStream ==
  /\ srvIncomingC' = [t \in Tags |-> <<>>]
  /\ srvDone' = [t \in Tags |-> FALSE]

\* a Close whose select never finds done closed
sshStream_Close_neverDone(tag) == FALSE

\* select { case <-s.done: ... }: the done case is ready
sshStream_Close_isDone(tag) == srvDone[tag]

\* Close, first half: the select; returns nil at once when done is closed
sshStream_Close_select(task, tag, lblClose, lblNext) ==
  /\ IF sshStream_Close_isDone(tag)
     THEN /\ Goto(task, lblNext)
          /\ closeLog' = <<srvDone[tag], srvDone[tag]>>
          /\ UNCHANGED closeSaw
     ELSE /\ Goto(task, lblClose)
          /\ closeSaw' = [closeSaw EXCEPT ![task] = srvDone[tag]]
          /\ UNCHANGED closeLog
  /\ UNCHANGED <<srvDone, panicked>>

\* Close, second half: default: close(s.done); closing a closed channel
\* panics, which ends the process
sshStream_Close_close(task, tag, lblNext) ==
  /\ IF srvDone[tag]
     THEN /\ panicked' = (IF closeSaw[task] THEN "sequential" ELSE "concurrent")
          /\ pc' = [t \in Tasks |-> "crashed"]
          /\ UNCHANGED <<srvDone, closeLog>>
     ELSE /\ srvDone' = [srvDone EXCEPT ![tag] = TRUE]
          /\ closeLog' = <<closeSaw[task], TRUE>>
          /\ Goto(task, lblNext)
          /\ UNCHANGED panicked
  /\ closeSaw' = [closeSaw EXCEPT ![task] = FALSE]

\* Recv: the cases of the select that are ready; Go picks any one of them
sshStream_Recv_cases(tag) ==
  (IF srvDone[tag] THEN {"eof"} ELSE {})
    \cup (IF srvIncomingC[tag] # <<>> THEN {"frame"} ELSE {})

\* Recv returning `res`; the frame is the head of incomingC
sshStream_Recv(tag, res) ==
  /\ res \in sshStream_Recv_cases(tag)
  /\ IF res = "frame"
     THEN /\ srvGot' = [srvGot EXCEPT ![tag] = Append(@, Head(srvIncomingC[tag]))]
          /\ srvIncomingC' = [srvIncomingC EXCEPT ![tag] = Tail(@)]
     ELSE UNCHANGED <<srvGot, srvIncomingC>>

\* stream.Send succeeds until the stream's context is cancelled
srvSendOk == srvStream # "cancelled"

\* Send: s.stream.Send(s.responseFn(frame)); the response carries the stream's tag
sshStream_Send(tag, payload) ==
  srvSent' = IF srvSendOk THEN Append(srvSent, <<tag, payload>>) ELSE srvSent


(***************************************************************************)
(* Service.GetClusterDetails.                                              *)
(***************************************************************************)
\* a service that reports FIPS as enabled whatever its configuration
GetClusterDetails_enabled ==
  /\ side = "details"
  /\ pc["handler"] = "GetClusterDetails"
  /\ srvSent' = Append(srvSent, <<"GetClusterDetailsResponse", <<1>>>>)
  /\ hret' = "nil"
  /\ pc' = [pc EXCEPT !["handler"] = "done"]
  /\ UNCHANGED <<cltVars, quietVars, dialCalls, conn, srvStream, qVars, muxVars, recvVars, closeVars, destVars>>

\* return &GetClusterDetailsResponse{Details: &ClusterDetails{FipsEnabled: s.cfg.FIPS}}, nil
GetClusterDetails ==
  /\ side = "details"
  /\ pc["handler"] = "GetClusterDetails"
  /\ srvSent' = Append(srvSent, <<"GetClusterDetailsResponse", <<IF fips THEN 1 ELSE 0>>>>)
  /\ hret' = "nil"
  /\ pc' = [pc EXCEPT !["handler"] = "done"]
  /\ UNCHANGED <<cltVars, quietVars, dialCalls, conn, srvStream, qVars, muxVars, recvVars, closeVars, destVars>>

(***************************************************************************)
(* Service.ProxySSH, the handler of a host session.                        *)
(***************************************************************************)
\* the first message a client may send, or the error of the first stream.Recv
FirstMsgs ==
  {[kind |-> "err", why |-> w, hasTarget |-> FALSE, hostPort |-> <<>>] : w \in {"eof", "cancelled"}}
    \cup {[kind |-> "req", why |-> "-", hasTarget |-> FALSE, hostPort |-> <<>>]}
    \cup {[kind |-> "req", why |-> "-", hasTarget |-> TRUE, hostPort |-> hp] : hp \in HostPorts}

\* return err: the handler is over and gRPC cancels the stream's context
ProxySSH_return(err) ==
  /\ hret' = err
  /\ Goto("handler", "done")
  /\ srvStream' = "cancelled"

\* p, ok := peer.FromContext(ctx)
ProxySSH_peer(ok) ==
  /\ pc["handler"] = "peer"
  /\ IF ok
     THEN Goto("handler", "checker") /\ UNCHANGED <<hret, srvStream>>
     ELSE ProxySSH_return("BadParameter: unable to find peer")
  /\ UNCHANGED <<cltVars, quietVars, dialCalls, conn, srvSent, qVars, muxVars, recvVars, closeVars, destVars>>

\* a handler that notes the access checker's error and carries on
ProxySSH_accessChecker_unchecked(ok) ==
  /\ pc["handler"] = "checker"
  /\ hret' = (IF ok THEN hret ELSE "AccessDenied: client is not authenticated")
  /\ Goto("handler", "recvFirst")
  /\ UNCHANGED <<cltVars, quietVars, dialCalls, conn, srvSent, srvStream, qVars, muxVars, recvVars, closeVars, destVars>>

\* checker, err := s.cfg.accessCheckerFn(p.AuthInfo)
ProxySSH_accessChecker(ok) ==
  /\ pc["handler"] = "checker"
  /\ IF ok
     THEN Goto("handler", "recvFirst") /\ UNCHANGED <<hret, srvStream>>
     ELSE ProxySSH_return("AccessDenied: client is not authenticated")
  /\ UNCHANGED <<cltVars, quietVars, dialCalls, conn, srvSent, qVars, muxVars, recvVars, closeVars, destVars>>

\* a handler that makes the streams and goes on to dial without starting the
\* multiplexer
ProxySSH_recvFirst_noMux(msg) ==
  /\ pc["handler"] = "recvFirst"
  /\ IF msg.kind = "err"
     THEN /\ srvStream = "open" \/ msg.why = "cancelled"
          /\ ProxySSH_return("failed receiving first frame")
          /\ UNCHANGED qVars
     ELSE /\ srvStream = "open"
          /\ IF ~msg.hasTarget
             THEN ProxySSH_return("BadParameter: first frame must contain a dial target")
                    /\ UNCHANGED qVars
             ELSE IF SplitHostPort(msg.hostPort) # "ok"
                  THEN ProxySSH_return("BadParameter: dial target contains an invalid hostport")
                         /\ UNCHANGED qVars
                  ELSE /\ newSSHStream
                       /\ Goto("handler", "dial")
                       /\ UNCHANGED <<hret, srvStream>>
  /\ UNCHANGED <<cltVars, quietVars, dialCalls, conn, srvSent, muxVars, recvVars, closeVars, destVars>>

\* a handler that makes the streams and starts the multiplexer before it
\* validates the target
ProxySSH_recvFirst_muxFirst(msg) ==
  /\ pc["handler"] = "recvFirst"
  /\ IF msg.kind = "err"
     THEN /\ srvStream = "open" \/ msg.why = "cancelled"
          /\ ProxySSH_return("failed receiving first frame")
          /\ UNCHANGED qVars
     ELSE /\ srvStream = "open"
          /\ newSSHStream
          /\ IF ~msg.hasTarget \/ SplitHostPort(msg.hostPort) # "ok"
             THEN /\ hret' = (IF ~msg.hasTarget
                              THEN "BadParameter: first frame must contain a dial target"
                              ELSE "BadParameter: dial target contains an invalid hostport")
                  /\ pc' = [pc EXCEPT !["handler"] = "done", !["mux"] = "recv"]
                  /\ srvStream' = "cancelled"
             ELSE /\ pc' = [pc EXCEPT !["handler"] = "dial", !["mux"] = "recv"]
                  /\ UNCHANGED <<hret, srvStream>>
  /\ UNCHANGED <<cltVars, quietVars, dialCalls, conn, srvSent, muxVars, recvVars, closeVars, destVars>>

\* req, err := stream.Recv(); the target is validated, the two streams are made,
\* the multiplexer is started and the agent reader/writer is constructed
ProxySSH_recvFirst(msg) ==
  /\ pc["handler"] = "recvFirst"
  /\ IF msg.kind = "err"
     THEN /\ srvStream = "open" \/ msg.why = "cancelled"
          /\ ProxySSH_return("failed receiving first frame")
          /\ UNCHANGED qVars
     ELSE /\ srvStream = "open"
          /\ IF ~msg.hasTarget
             THEN ProxySSH_return("BadParameter: first frame must contain a dial target")
                    /\ UNCHANGED qVars
             ELSE IF SplitHostPort(msg.hostPort) # "ok"
                  THEN ProxySSH_return("BadParameter: dial target contains an invalid hostport")
                         /\ UNCHANGED qVars
                  ELSE /\ newSSHStream
                       /\ pc' = [pc EXCEPT !["handler"] = "dial", !["mux"] = "recv"]
                       /\ UNCHANGED <<hret, srvStream>>
  /\ UNCHANGED <<cltVars, quietVars, dialCalls, conn, srvSent, muxVars, recvVars, closeVars, destVars>>

\* the call of s.cfg.Dialer.DialHost, which is given the agent getter; in a
\* "flood" session the Dialer never calls the getter, so that nothing reads
\* the agent stream
ProxySSH_DialHost ==
  /\ pc["handler"] = "dial"
  /\ dialCalls' = dialCalls + 1
  /\ pc' = [pc EXCEPT !["handler"] = "dialing",
                      !["agentUser"] = IF load = "flood" THEN "off" ELSE "recv"]
  /\ UNCHANGED <<cltVars, quietVars, hret, conn, strmVars, qVars, muxVars, recvVars, closeVars, destVars>>

\* a handler that goes on to send the details when dialing failed
ProxySSH_DialHost_return_unchecked(ok) ==
  /\ pc["handler"] = "dialing"
  /\ hret' = (IF ok THEN hret ELSE "failed to dial target host")
  /\ conn' = (IF ok THEN "open" ELSE conn)
  /\ Goto("handler", "sendDetails")
  /\ UNCHANGED <<cltVars, quietVars, dialCalls, strmVars, qVars, muxVars, recvVars, closeVars, destVars>>

\* a handler that starts the copy loops as soon as DialHost has returned
ProxySSH_DialHost_return_proxying(ok) ==
  /\ pc["handler"] = "dialing"
  /\ IF ok
     THEN /\ conn' = "open"
          /\ pc' = [pc EXCEPT !["handler"] = "sendDetails", !["copyIn"] = "recv", !["copyOut"] = "read"]
          /\ UNCHANGED hret
     ELSE /\ hret' = "failed to dial target host"
          /\ Goto("handler", "deferAgent_select")
          /\ UNCHANGED conn
  /\ UNCHANGED <<cltVars, quietVars, dialCalls, strmVars, qVars, muxVars, recvVars, closeVars, destVars>>

\* conn, err := DialHost(...) returns; on an error the deferred
\* agentStreamRW.Close() runs
ProxySSH_DialHost_return(ok) ==
  /\ pc["handler"] = "dialing"
  /\ IF ok
     THEN /\ conn' = "open"
          /\ Goto("handler", "sendDetails")
          /\ UNCHANGED hret
     ELSE /\ hret' = "failed to dial target host"
          /\ Goto("handler", "deferAgent_select")
          /\ UNCHANGED conn
  /\ UNCHANGED <<cltVars, quietVars, dialCalls, strmVars, qVars, muxVars, recvVars, closeVars, destVars>>

\* a task enters stream.Send, and returns from it
Send_enter(task) == sending' = sending \cup {task}
Send_return(task) == sending' = sending \ {task}

\* stream.Send(&ProxySSHResponse{Details: ...}) is called
ProxySSH_sendDetails ==
  /\ pc["handler"] = "sendDetails"
  /\ IF srvSendOk
     THEN /\ srvSent' = Append(srvSent, <<"details", <<IF fips THEN 1 ELSE 0>>>>)
          /\ Send_enter("handler")
          /\ Goto("handler", "detailsSent")
          /\ UNCHANGED hret
     ELSE /\ hret' = "failed sending cluster details"
          /\ Goto("handler", "deferAgent_select")
          /\ UNCHANGED <<srvSent, sending>>
  /\ UNCHANGED <<cltVars, cfgVars, dialCalls, conn, srvStream, qVars, muxVars, recvVars, closeVars, destVars>>

\* the Send of the details returns, and utils.ProxyConn starts its two copy
\* loops
ProxySSH_ProxyConn ==
  /\ pc["handler"] = "detailsSent"
  /\ Send_return("handler")
  /\ pc' = [pc EXCEPT !["handler"] = "proxy", !["copyIn"] = "recv", !["copyOut"] = "read"]
  /\ UNCHANGED <<cltVars, cfgVars, hVars, strmVars, qVars, muxVars, recvVars, closeVars, destVars>>

\* utils.ProxyConn: a copy loop has ended or the context is done; the
\* destination connection is closed, then the stream's reader/writer
ProxyConn_wait ==
  /\ pc["handler"] = "proxy"
  /\ pc["copyIn"] = "exit" \/ pc["copyOut"] = "exit" \/ srvStream = "cancelled"
  /\ conn' = "closed"
  /\ hret' = "proxy ended"
  /\ Goto("handler", "closeSsh_select")
  /\ UNCHANGED <<cltVars, quietVars, dialCalls, strmVars, qVars, muxVars, recvVars, closeVars, destVars>>

\* sshStreamRW.Close(), which closes its source, the ssh stream
ProxyConn_close_select ==
  /\ pc["handler"] = "closeSsh_select"
  /\ sshStream_Close_select("handler", "ssh", "closeSsh_close", "deferAgent_select")
  /\ UNCHANGED <<cltVars, quietVars, hVars, strmVars, srvIncomingC, muxVars, recvVars, destVars>>

ProxyConn_close_close ==
  /\ pc["handler"] = "closeSsh_close"
  /\ sshStream_Close_close("handler", "ssh", "deferAgent_select")
  /\ UNCHANGED <<cltVars, quietVars, hVars, strmVars, srvIncomingC, muxVars, recvVars, destVars>>

\* a handler that returns without the deferred Close of the agent stream
ProxySSH_defer_skip ==
  /\ pc["handler"] = "deferAgent_select"
  /\ Goto("handler", "return")
  /\ UNCHANGED <<closeVars, srvDone>>
  /\ UNCHANGED <<cltVars, quietVars, hVars, strmVars, srvIncomingC, muxVars, recvVars, destVars>>

\* defer agentStreamRW.Close(), which closes its source, the agent stream
ProxySSH_defer_select ==
  /\ pc["handler"] = "deferAgent_select"
  /\ sshStream_Close_select("handler", "agent", "deferAgent_close", "return")
  /\ UNCHANGED <<cltVars, quietVars, hVars, strmVars, srvIncomingC, muxVars, recvVars, destVars>>

ProxySSH_defer_close ==
  /\ pc["handler"] = "deferAgent_close"
  /\ sshStream_Close_close("handler", "agent", "return")
  /\ UNCHANGED <<cltVars, quietVars, hVars, strmVars, srvIncomingC, muxVars, recvVars, destVars>>

\* the handler returns what it set out to return
ProxySSH_deferred_return ==
  /\ pc["handler"] = "return"
  /\ ProxySSH_return(hret)
  /\ UNCHANGED <<cltVars, quietVars, dialCalls, conn, srvSent, qVars, muxVars, recvVars, closeVars, destVars>>


(***************************************************************************)
(* Service.ProxyCluster, the handler of a cluster session, and the         *)
(* clusterStream of the server, which reads the parent stream directly.    *)
(***************************************************************************)
\* the first message a client may send, or the error of the first stream.Recv
ClusterFirstMsgs ==
  {[kind |-> "err", why |-> w, hasFrame |-> FALSE] : w \in {"eof", "cancelled"}}
    \cup {[kind |-> "req", why |-> "-", hasFrame |-> b] : b \in BOOLEAN}

\* return err: the handler is over and gRPC cancels the stream's context
ProxyCluster_return(err) ==
  /\ hret' = err
  /\ Goto("handler", "done")
  /\ srvStream' = "cancelled"

\* the payloads received after the first message
LaterFrames == SelectSeq(srvRcvd["cluster"], LAMBDA m : m # <<0>>)

\* req, err := stream.Recv(); the first message carries the payload <<0>>
\* or no frame, the k-th message after it the payload <<k>>
ProxyCluster_recvFirst(msg) ==
  /\ pc["handler"] = "clusterRecvFirst"
  /\ IF msg.kind = "err"
     THEN /\ ProxyCluster_return("failed receiving first frame")
          /\ UNCHANGED <<srvHold, srvRcvd>>
     ELSE /\ Goto("handler", "DialSite")
          /\ srvHold' = (IF msg.hasFrame THEN <<"cluster", <<0>>>> ELSE NoFrame)
          /\ srvRcvd' = [srvRcvd EXCEPT !["cluster"] = IF msg.hasFrame THEN <<<<0>>>> ELSE @]
          /\ UNCHANGED <<hret, srvStream>>
  /\ UNCHANGED <<cltVars, quietVars, dialCalls, conn, srvSent, qVars, srvOther, recvVars, closeVars, destVars>>

\* a handler that notes the error of DialSite and carries on
ProxyCluster_DialSite_unchecked(ok) ==
  /\ pc["handler"] = "DialSite"
  /\ conn' = (IF ok THEN "open" ELSE conn)
  /\ hret' = (IF ok THEN hret ELSE "failed dialing cluster")
  /\ Goto("handler", "writeFirst")
  /\ UNCHANGED <<cltVars, quietVars, dialCalls, strmVars, qVars, muxVars, recvVars, closeVars, destVars>>

\* conn, err := s.cfg.Dialer.DialSite(stream.Context(), req.Cluster)
ProxyCluster_DialSite(ok) ==
  /\ pc["handler"] = "DialSite"
  /\ IF ok
     THEN /\ conn' = "open"
          /\ Goto("handler", "writeFirst")
          /\ UNCHANGED <<hret, srvStream>>
     ELSE /\ ProxyCluster_return("failed dialing cluster")
          /\ UNCHANGED conn
  /\ UNCHANGED <<cltVars, quietVars, dialCalls, srvSent, qVars, muxVars, recvVars, closeVars, destVars>>

\* a handler that leaves the payload of the first message to the copy loop
ProxyCluster_writeFirst_skip(ok) ==
  /\ pc["handler"] = "writeFirst"
  /\ srvHold' = NoFrame
  /\ pc' = [pc EXCEPT !["handler"] = "clusterProxy", !["copyIn"] = "clusterRecv", !["copyOut"] = "clusterRead"]
  /\ UNCHANGED <<hret, srvStream, destWritten>>
  /\ UNCHANGED <<cltVars, quietVars, dialCalls, conn, srvSent, qVars, srvRcvd, srvOther, recvVars, closeVars, destRead>>

\* if req.Frame != nil { conn.Write(req.Frame.Payload) }, then
\* streamutils.NewReadWriter(clusterStream{stream}) and utils.ProxyConn
\* start the two copy loops
ProxyCluster_writeFirst(ok) ==
  /\ pc["handler"] = "writeFirst"
  /\ srvHold' = NoFrame
  /\ IF srvHold # NoFrame /\ ~ok
     THEN /\ ProxyCluster_return("failed writing payload from first frame")
          /\ UNCHANGED destWritten
     ELSE /\ destWritten' = (IF srvHold # NoFrame THEN Append(destWritten, srvHold[2]) ELSE destWritten)
          /\ pc' = [pc EXCEPT !["handler"] = "clusterProxy", !["copyIn"] = "clusterRecv", !["copyOut"] = "clusterRead"]
          /\ UNCHANGED <<hret, srvStream>>
  /\ UNCHANGED <<cltVars, quietVars, dialCalls, conn, srvSent, qVars, srvRcvd, srvOther, recvVars, closeVars, destRead>>

\* stream -> destination: streamRW.Read calls clusterStream.Recv, which
\* calls stream.Recv itself; a request without a frame is a bad-parameter
\* error; what was read is written to the destination
ProxyCluster_copyIn(res) ==
  /\ pc["copyIn"] = "clusterRecv"
  /\ CASE res = "frame" ->
            /\ srvStream = "open"
            /\ Len(LaterFrames) < MaxMixed
            /\ srvRcvd' = [srvRcvd EXCEPT !["cluster"] = Append(@, <<Len(LaterFrames) + 1>>)]
            /\ IF conn = "open"
               THEN /\ destWritten' = Append(destWritten, <<Len(LaterFrames) + 1>>)
                    /\ UNCHANGED pc
               ELSE /\ Goto("copyIn", "exit")
                    /\ UNCHANGED destWritten
            /\ UNCHANGED <<srvStream, srvOther>>
       [] res = "nilframe" ->
            /\ srvStream = "open"
            /\ srvOther' = TRUE
            /\ Goto("copyIn", "exit")
            /\ UNCHANGED <<srvStream, srvRcvd, destWritten>>
       [] OTHER ->
            /\ srvStream \in {"open", res}
            /\ srvStream' = res
            /\ Goto("copyIn", "exit")
            /\ UNCHANGED <<srvRcvd, srvOther, destWritten>>
  /\ UNCHANGED <<cltVars, quietVars, hVars, srvSent, qVars, srvHold, recvVars, closeVars, destRead>>

\* destination -> stream: conn.Read, then streamRW.Write calls
\* clusterStream.Send, which sends a response with the payload as its frame
ProxyCluster_copyOut(data) ==
  /\ pc["copyOut"] = "clusterRead"
  /\ IF data /\ conn = "open" /\ srvSendOk
     THEN /\ Len(srvSent) < MaxSent
          /\ destRead' = destRead + 1
          /\ srvSent' = Append(srvSent, <<"cluster", <<destRead + 1>>>>)
          /\ UNCHANGED pc
     ELSE /\ Goto("copyOut", "exit")
          /\ UNCHANGED <<destRead, srvSent>>
  /\ UNCHANGED <<cltVars, quietVars, hVars, srvStream, qVars, muxVars, recvVars, closeVars, destWritten>>

\* utils.ProxyConn: a copy loop has ended or the context is done; the
\* destination connection and the reader/writer are closed (clusterStream
\* has no Close) and the handler returns
ProxyCluster_ProxyConn_wait ==
  /\ pc["handler"] = "clusterProxy"
  /\ pc["copyIn"] = "exit" \/ pc["copyOut"] = "exit" \/ srvStream = "cancelled"
  /\ conn' = "closed"
  /\ hret' = "proxy ended"
  /\ srvStream' = "cancelled"
  /\ Goto("handler", "done")
  /\ UNCHANGED <<cltVars, quietVars, dialCalls, srvSent, qVars, muxVars, recvVars, closeVars, destVars>>

(***************************************************************************)
(* The multiplexer goroutine of ProxySSH.                                  *)
(***************************************************************************)
\* how many frames of a tag the peer sends at most
MaxOf(tag) ==
  CASE load = "mixed" -> MaxMixed
    [] load = "flood" -> IF tag = "agent" THEN MaxBulk ELSE MaxMixed
    [] OTHER -> IF tag = "ssh" THEN MaxBulk ELSE 0

\* req, err := stream.Recv() with err != nil
mux_Recv_error(why) ==
  /\ pc["mux"] = "recv"
  /\ srvStream = "open" \/ srvStream = why
  /\ srvStream' = why
  /\ srvOther' = FALSE
  /\ Goto("mux", "closeAgent_select")
  /\ UNCHANGED <<cltVars, quietVars, hVars, srvSent, qVars, srvHold, srvRcvd, recvVars, closeVars, destVars>>

\* req, err := stream.Recv() with a frame of tag `tag`; the k-th frame of a
\* tag carries the payload <<k>>
mux_Recv_frame(tag) ==
  /\ pc["mux"] = "recv"
  /\ srvStream = "open"
  /\ Len(srvRcvd[tag]) < MaxOf(tag)
  /\ LET payload == <<Len(srvRcvd[tag]) + 1>>
     IN /\ srvRcvd' = [srvRcvd EXCEPT ![tag] = Append(@, payload)]
        /\ srvHold' = <<tag, payload>>
  /\ srvOther' = FALSE
  /\ Goto("mux", "send")
  /\ UNCHANGED <<cltVars, quietVars, hVars, strmVars, qVars, recvVars, closeVars, destVars>>

\* a multiplexer that takes a frame of neither tag for a receive error
mux_Recv_other_fatal ==
  /\ pc["mux"] = "recv"
  /\ srvStream = "open"
  /\ load = "mixed"
  /\ srvOther' = TRUE
  /\ Goto("mux", "closeAgent_select")
  /\ UNCHANGED <<cltVars, quietVars, hVars, strmVars, qVars, srvHold, srvRcvd, recvVars, closeVars, destVars>>

\* default: a frame of neither tag is logged and skipped
mux_Recv_other ==
  /\ pc["mux"] = "recv"
  /\ srvStream = "open"
  /\ load = "mixed"
  /\ srvOther' = TRUE
  /\ UNCHANGED <<cltVars, quietVars, pc, hVars, strmVars, qVars, srvHold, srvRcvd, recvVars, closeVars, destVars>>

\* a multiplexer whose send panics once Close has closed the channel
mux_send_closedPanics ==
  /\ pc["mux"] = "send"
  /\ Len(srvIncomingC[srvHold[1]]) < QueueCap
  /\ IF srvDone[srvHold[1]]
     THEN /\ panicked' = "send on closed channel"
          /\ pc' = [t \in Tasks |-> "crashed"]
          /\ UNCHANGED <<srvIncomingC, srvHold>>
     ELSE /\ srvIncomingC' = [srvIncomingC EXCEPT ![srvHold[1]] = Append(@, srvHold[2])]
          /\ srvHold' = NoFrame
          /\ Goto("mux", "recv")
          /\ UNCHANGED panicked
  /\ UNCHANGED <<cltVars, quietVars, hVars, strmVars, srvDone, srvRcvd, srvOther, recvVars, closeSaw, closeLog, destVars>>

\* a multiplexer that drops the frame when the channel is full
mux_send_drop ==
  /\ pc["mux"] = "send"
  /\ srvIncomingC' = [srvIncomingC EXCEPT ![srvHold[1]] =
                        IF Len(@) < QueueCap THEN Append(@, srvHold[2]) ELSE @]
  /\ srvHold' = NoFrame
  /\ Goto("mux", "recv")
  /\ UNCHANGED <<cltVars, quietVars, hVars, strmVars, srvDone, srvRcvd, srvOther, recvVars, closeVars, destVars>>

\* a multiplexer that puts the frame at the front of the channel
mux_send_front ==
  /\ pc["mux"] = "send"
  /\ Len(srvIncomingC[srvHold[1]]) < QueueCap
  /\ srvIncomingC' = [srvIncomingC EXCEPT ![srvHold[1]] = <<srvHold[2]>> \o @]
  /\ srvHold' = NoFrame
  /\ Goto("mux", "recv")
  /\ UNCHANGED <<cltVars, quietVars, hVars, strmVars, srvDone, srvRcvd, srvOther, recvVars, closeVars, destVars>>

\* sshStream.incomingC <- payload, or agentStream.incomingC <- payload: blocks
\* while the channel is full
mux_send ==
  /\ pc["mux"] = "send"
  /\ Len(srvIncomingC[srvHold[1]]) < QueueCap
  /\ srvIncomingC' = [srvIncomingC EXCEPT ![srvHold[1]] = Append(@, srvHold[2])]
  /\ srvHold' = NoFrame
  /\ Goto("mux", "recv")
  /\ UNCHANGED <<cltVars, quietVars, hVars, strmVars, srvDone, srvRcvd, srvOther, recvVars, closeVars, destVars>>

\* agentStream.Close() then sshStream.Close() on a receive error
mux_closeAgent_select ==
  /\ pc["mux"] = "closeAgent_select"
  /\ sshStream_Close_select("mux", "agent", "closeAgent_close", "closeSsh_select")
  /\ UNCHANGED <<cltVars, quietVars, hVars, strmVars, srvIncomingC, muxVars, recvVars, destVars>>

mux_closeAgent_close ==
  /\ pc["mux"] = "closeAgent_close"
  /\ sshStream_Close_close("mux", "agent", "closeSsh_select")
  /\ UNCHANGED <<cltVars, quietVars, hVars, strmVars, srvIncomingC, muxVars, recvVars, destVars>>

mux_closeSsh_select ==
  /\ pc["mux"] = "closeSsh_select"
  /\ sshStream_Close_select("mux", "ssh", "closeSsh_close", "done")
  /\ UNCHANGED <<cltVars, quietVars, hVars, strmVars, srvIncomingC, muxVars, recvVars, destVars>>

mux_closeSsh_close ==
  /\ pc["mux"] = "closeSsh_close"
  /\ sshStream_Close_close("mux", "ssh", "done")
  /\ UNCHANGED <<cltVars, quietVars, hVars, strmVars, srvIncomingC, muxVars, recvVars, destVars>>

\* the client goes away: the stream's context is cancelled
ctx_cancel ==
  /\ side = "server"
  /\ srvStream \in {"open", "eof"}
  /\ pc["handler"] \notin {"done", "crashed"}
  /\ srvStream' = "cancelled"
  /\ UNCHANGED <<cltVars, quietVars, pc, hVars, srvSent, qVars, muxVars, recvVars, closeVars, destVars>>

(***************************************************************************)
(* utils.ProxyConn's copy loops, and the user of the agent reader/writer.  *)
(***************************************************************************)
\* stream -> destination: sshStreamRW.Read (sshStream.Recv), then conn.Write
ProxyConn_copyIn(res) ==
  /\ pc["copyIn"] = "recv"
  /\ sshStream_Recv("ssh", res)
  /\ IF res = "frame" /\ conn = "open"
     THEN /\ destWritten' = Append(destWritten, Head(srvIncomingC["ssh"]))
          /\ UNCHANGED pc
     ELSE /\ Goto("copyIn", "exit")
          /\ UNCHANGED destWritten
  /\ UNCHANGED <<cltVars, quietVars, hVars, strmVars, srvDone, muxVars, closeVars, destRead>>

\* destination -> stream: conn.Read, then sshStreamRW.Write calls
\* sshStream.Send
ProxyConn_copyOut(data) ==
  /\ pc["copyOut"] = "read"
  /\ IF data /\ conn = "open" /\ srvSendOk
     THEN /\ load = "mixed"
          /\ Len(srvSent) < MaxSent
          /\ destRead' = destRead + 1
          /\ sshStream_Send("ssh", <<destRead + 1>>)
          /\ Send_enter("copyOut")
          /\ Goto("copyOut", "send")
     ELSE /\ Goto("copyOut", "exit")
          /\ UNCHANGED <<destRead, srvSent, sending>>
  /\ UNCHANGED <<cltVars, cfgVars, hVars, srvStream, qVars, muxVars, recvVars, closeVars, destWritten>>

\* sshStream.Send returns to the copy loop
ProxyConn_copyOut_sent ==
  /\ pc["copyOut"] = "send"
  /\ Send_return("copyOut")
  /\ Goto("copyOut", "read")
  /\ UNCHANGED <<cltVars, cfgVars, hVars, strmVars, qVars, muxVars, recvVars, closeVars, destVars>>

\* the agent user is in agentStreamRW.Read, which calls agentStream.Recv; it
\* reads on until the end of the stream
agentUser_Recv(res) ==
  /\ pc["agentUser"] = "recv"
  /\ sshStream_Recv("agent", res)
  /\ Goto("agentUser", IF res = "eof" THEN "exit" ELSE "recv")
  /\ UNCHANGED <<cltVars, quietVars, hVars, strmVars, srvDone, muxVars, closeVars, destVars>>

\* the agent user (from a goroutine of its own) calls agentStreamRW.Write,
\* which calls agentStream.Send
agentUser_Write ==
  /\ pc["agentUser"] \in {"recv", "exit"}
  /\ "agentWriter" \notin sending
  /\ load = "mixed"
  /\ Len(srvSent) < MaxSent
  /\ srvSendOk
  /\ sshStream_Send("agent", <<1>>)
  /\ Send_enter("agentWriter")
  /\ UNCHANGED <<cltVars, cfgVars, pc, hVars, srvStream, qVars, muxVars, recvVars, closeVars, destVars>>

\* agentStream.Send returns to the agent user
agentUser_Write_sent ==
  /\ "agentWriter" \in sending
  /\ pc["agentUser"] # "crashed"
  /\ Send_return("agentWriter")
  /\ UNCHANGED <<cltVars, cfgVars, pc, srvVars>>

(***************************************************************************)
(* streamutils.ReadWriter and streamutils.Conn over a source (Recv, Send). *)
(***************************************************************************)
\* Read on a receive error: the end of the stream stays io.EOF, any other
\* error is classified as a connection problem
ReadWriter_Read_error(err) == IF err = "eof" THEN "EOF" ELSE "ConnectionProblem"

\* Read copies what fits of the frame and keeps the rest for the next Read
ReadWriter_Read_copy(data, n) ==
  /\ lastRead' = <<Take(data, n), "nil", n>>
  /\ rBytes' = Drop(data, n)
  /\ reads' = Min(reads + 1, 2)

\* Read returns the error of the source and no bytes
ReadWriter_Read_fail(err, n) ==
  /\ lastRead' = <<<<>>, ReadWriter_Read_error(err), n>>
  /\ reads' = Min(reads + 1, 2)
  /\ UNCHANGED rBytes

\* Close closes the source when the source has a Close; the client's sources
\* have none
ReadWriter_Close ==
  /\ closeLog' = <<cltClosed, TRUE>>
  /\ cltClosed' = TRUE

\* stream.Send of the client succeeds while the stream has not ended
cltSendOk == cltStream = "open"

(***************************************************************************)
(* Client.DialHost.                                                        *)
(***************************************************************************)
\* return nil, nil, err
DialHost_fail(err) ==
  /\ cltErr' = err
  /\ Goto("caller", "returned")
  /\ UNCHANGED <<cltConn, cltDetails>>

\* stream, err := c.clt.ProxySSH(ctx)
DialHost_ProxySSH(ok) ==
  /\ pc["caller"] = "ProxySSH"
  /\ IF ok
     THEN Goto("caller", "sendTarget") /\ UNCHANGED <<cltConn, cltDetails, cltErr>>
     ELSE DialHost_fail("unable to establish proxy stream")
  /\ UNCHANGED <<quietVars, srvVars, firstResp, cltStream, cltSent, cqVars, cmuxVars, readVars, lastWrite, cltClosed>>

\* a DialHost that starts its multiplexer before the handshake's receive
DialHost_sendTarget_muxFirst(ok) ==
  /\ pc["caller"] = "sendTarget"
  /\ IF ok
     THEN /\ cltSent' = Append(cltSent, <<"target", <<>>>>)
          /\ pc' = [pc EXCEPT !["caller"] = "recvFirst", !["cmux"] = "recv"]
          /\ UNCHANGED <<cltConn, cltDetails, cltErr>>
     ELSE /\ DialHost_fail("failed to send dial target request")
          /\ UNCHANGED cltSent
  /\ UNCHANGED <<quietVars, srvVars, firstResp, cltStream, cqVars, cmuxVars, readVars, lastWrite, cltClosed>>

\* stream.Send(&ProxySSHRequest{DialTarget: ...})
DialHost_sendTarget(ok) ==
  /\ pc["caller"] = "sendTarget"
  /\ IF ok
     THEN /\ cltSent' = Append(cltSent, <<"target", <<>>>>)
          /\ Goto("caller", "recvFirst")
          /\ UNCHANGED <<cltConn, cltDetails, cltErr>>
     ELSE /\ DialHost_fail("failed to send dial target request")
          /\ UNCHANGED cltSent
  /\ UNCHANGED <<quietVars, srvVars, firstResp, cltStream, cqVars, cmuxVars, readVars, lastWrite, cltClosed>>

\* what the first stream.Recv may bring: the end of the stream, the details,
\* or a response that carries a frame and no details
FirstResps == {"eof", "error", "fips", "nofips", "frame"}

\* a DialHost that does not look at the error of its first stream.Recv
DialHost_recvFirst_unchecked(resp) ==
  /\ pc["caller"] = "recvFirst"
  /\ cltStream' = (IF resp \in {"eof", "error"} THEN resp ELSE cltStream)
  /\ firstResp' = (IF resp \in {"eof", "error"} THEN "none"
                   ELSE IF resp = "frame" THEN "frame" ELSE "details")
  /\ cltIncomingC' = [t \in Tags |-> <<>>]
  /\ cltErrorC' = [t \in Tags |-> <<>>]
  /\ cltConn' = "conn"
  /\ cltDetails' = (IF resp \in {"fips", "nofips"} THEN resp ELSE "nil")
  /\ cltErr' = "nil"
  /\ pc' = [pc EXCEPT !["caller"] = "user", !["cmux"] = "recv"]
  /\ UNCHANGED <<quietVars, srvVars, cltSent, cmuxVars, readVars, lastWrite, cltClosed>>

\* resp, err := stream.Recv(); on success the two streams, their
\* reader/writers and the connection are made, the multiplexer is started
\* and DialHost returns sshConn, resp.Details, nil
DialHost_recvFirst(resp) ==
  /\ pc["caller"] = "recvFirst"
  /\ IF resp \in {"eof", "error"}
     THEN /\ cltStream' = resp
          /\ DialHost_fail("failed to receive cluster details response")
          /\ UNCHANGED <<firstResp, cqVars>>
     ELSE /\ firstResp' = (IF resp = "frame" THEN "frame" ELSE "details")
          /\ cltIncomingC' = [t \in Tags |-> <<>>]
          /\ cltErrorC' = [t \in Tags |-> <<>>]
          /\ cltConn' = "conn"
          /\ cltDetails' = (IF resp = "frame" THEN "nil" ELSE resp)
          /\ cltErr' = "nil"
          /\ pc' = [pc EXCEPT !["caller"] = "user", !["cmux"] = "recv"]
          /\ UNCHANGED cltStream
  /\ UNCHANGED <<quietVars, srvVars, cltSent, cmuxVars, readVars, lastWrite, cltClosed>>

(***************************************************************************)
(* sshStream of the client and the multiplexer goroutine of DialHost.      *)
(***************************************************************************)
\* Recv: the cases of the select that are ready; Go picks any one of them
cltStream_Recv_cases(tag) ==
  (IF cltErrorC[tag] # <<>> THEN {"error"} ELSE {})
    \cup (IF cltIncomingC[tag] # <<>> THEN {"frame"} ELSE {})

\* how many frames of a tag the server sends at most, apart from echoes
CltMaxOf(tag) ==
  IF load = "mixed" THEN (IF tag = "agent" THEN MaxAgentReq ELSE MaxMixed)
  ELSE IF load = "bulk" /\ tag = "ssh" THEN MaxBulk ELSE 0

\* the payloads written with tag `tag` so far
SentWith(tag) == SelectSeq(cltSent, LAMBDA m : m[1] = tag)

\* the next frame of tag `tag` the server has for the client: its own k-th
\* frame <<k>>, or the echo of the k-th payload it received
ServerFrames(tag) ==
  IF load = "echo"
  THEN IF tag # "agent" /\ Len(cltRcvd[tag]) < Len(SentWith(tag))
       THEN {SentWith(tag)[Len(cltRcvd[tag]) + 1][2]} ELSE {}
  ELSE IF Len(cltRcvd[tag]) < CltMaxOf(tag)
       THEN {<<Len(cltRcvd[tag]) + 1>>} ELSE {}

\* req, err := stream.Recv() with err != nil: io.EOF when the server's
\* handler returned nil, its error otherwise
cmux_Recv_error(err) ==
  /\ pc["cmux"] = "recv"
  /\ cltStream = "open"
  /\ cltStream' = err
  /\ cltOther' = FALSE
  /\ Goto("cmux", "sendError")
  /\ UNCHANGED <<quietVars, srvVars, retVars, cltSent, cqVars, cltHold, cltRcvd, served, readVars, lastWrite, cltClosed>>

\* a multiplexer that sends the receive error to the agent stream as well
cmux_sendError_both ==
  /\ pc["cmux"] = "sendError"
  /\ Len(cltErrorC["ssh"]) < ErrorCap
  /\ Len(cltErrorC["agent"]) < ErrorCap
  /\ cltErrorC' = [t \in DOMAIN cltErrorC |-> Append(cltErrorC[t], cltStream)]
  /\ Goto("cmux", "deferred")
  /\ UNCHANGED <<quietVars, srvVars, retVars, cltStream, cltSent, cltIncomingC, cmuxVars, readVars, lastWrite, cltClosed>>

\* a multiplexer that reports every receive error as the end of the stream
cmux_sendError_eof ==
  /\ pc["cmux"] = "sendError"
  /\ Len(cltErrorC["ssh"]) < ErrorCap
  /\ cltErrorC' = [cltErrorC EXCEPT !["ssh"] = Append(@, "eof")]
  /\ Goto("cmux", "deferred")
  /\ UNCHANGED <<quietVars, srvVars, retVars, cltStream, cltSent, cltIncomingC, cmuxVars, readVars, lastWrite, cltClosed>>

\* sshStream.errorC <- err, then return
cmux_sendError ==
  /\ pc["cmux"] = "sendError"
  /\ Len(cltErrorC["ssh"]) < ErrorCap
  /\ cltErrorC' = [cltErrorC EXCEPT !["ssh"] = Append(@, cltStream)]
  /\ Goto("cmux", "deferred")
  /\ UNCHANGED <<quietVars, srvVars, retVars, cltStream, cltSent, cltIncomingC, cmuxVars, readVars, lastWrite, cltClosed>>

\* the deferred agentRW.Close() and sshConn.Close()
cmux_deferred ==
  /\ pc["cmux"] = "deferred"
  /\ ReadWriter_Close
  /\ Goto("cmux", "done")
  /\ UNCHANGED <<quietVars, hVars, strmVars, qVars, muxVars, recvVars, closeSaw, panicked, destVars,
                 retVars, cltStream, cltSent, cqVars, cmuxVars, readVars, lastWrite>>

\* a frame of tag ssh arrives
cmux_Recv_ssh ==
  /\ pc["cmux"] = "recv"
  /\ cltStream = "open"
  /\ \E payload \in ServerFrames("ssh") :
       /\ cltRcvd' = [cltRcvd EXCEPT !["ssh"] = Append(@, payload)]
       /\ cltHold' = <<"ssh", payload>>
  /\ cltOther' = FALSE
  /\ Goto("cmux", "send")
  /\ UNCHANGED <<quietVars, srvVars, retVars, cltStream, cltSent, cqVars, served, readVars, lastWrite, cltClosed>>

\* a multiplexer that enqueues agent frames whether or not there is a keyring
cmux_Recv_agent_anyKeyring ==
  /\ pc["cmux"] = "recv"
  /\ cltStream = "open"
  /\ \E payload \in ServerFrames("agent") :
       /\ cltRcvd' = [cltRcvd EXCEPT !["agent"] = Append(@, payload)]
       /\ cltHold' = <<"agent", payload>>
       /\ IF served = 0 /\ keyring
          THEN /\ served' = 1
               /\ pc' = [pc EXCEPT !["cmux"] = "send", !["serveAgent"] = "recv"]
          ELSE /\ Goto("cmux", "send")
               /\ UNCHANGED served
  /\ cltOther' = FALSE
  /\ UNCHANGED <<quietVars, srvVars, retVars, cltStream, cltSent, cqVars, readVars, lastWrite, cltClosed>>

\* a multiplexer that starts agent.ServeAgent on every agent frame
cmux_Recv_agent_everyFrame ==
  /\ pc["cmux"] = "recv"
  /\ cltStream = "open"
  /\ \E payload \in ServerFrames("agent") :
       /\ cltRcvd' = [cltRcvd EXCEPT !["agent"] = Append(@, payload)]
       /\ IF ~keyring
          THEN UNCHANGED <<pc, cltHold, served>>
          ELSE /\ cltHold' = <<"agent", payload>>
               /\ served' = served + 1
               /\ pc' = [pc EXCEPT !["cmux"] = "send",
                                   !["serveAgent"] = IF served = 0 THEN "recv" ELSE @]
  /\ cltOther' = FALSE
  /\ UNCHANGED <<quietVars, srvVars, retVars, cltStream, cltSent, cqVars, readVars, lastWrite, cltClosed>>

\* a frame of tag agent arrives: skipped without a keyring; with one,
\* serveOnce.Do starts agent.ServeAgent before the frame is enqueued
cmux_Recv_agent ==
  /\ pc["cmux"] = "recv"
  /\ cltStream = "open"
  /\ \E payload \in ServerFrames("agent") :
       /\ cltRcvd' = [cltRcvd EXCEPT !["agent"] = Append(@, payload)]
       /\ IF ~keyring
          THEN UNCHANGED <<pc, cltHold, served>>
          ELSE /\ cltHold' = <<"agent", payload>>
               /\ IF served = 0
                  THEN /\ served' = 1
                       /\ pc' = [pc EXCEPT !["cmux"] = "send", !["serveAgent"] = "recv"]
                  ELSE /\ Goto("cmux", "send")
                       /\ UNCHANGED served
  /\ cltOther' = FALSE
  /\ UNCHANGED <<quietVars, srvVars, retVars, cltStream, cltSent, cqVars, readVars, lastWrite, cltClosed>>

\* default: a response with neither frame is skipped
cmux_Recv_other ==
  /\ pc["cmux"] = "recv"
  /\ cltStream = "open"
  /\ load = "mixed"
  /\ cltOther' = TRUE
  /\ UNCHANGED <<quietVars, srvVars, pc, retVars, cltStream, cltSent, cqVars, cltHold, cltRcvd, served, readVars, lastWrite, cltClosed>>

\* a multiplexer whose channels have no bound
cmux_send_unbounded ==
  /\ pc["cmux"] = "send"
  /\ cltIncomingC' = [cltIncomingC EXCEPT ![cltHold[1]] = Append(@, cltHold[2])]
  /\ cltHold' = NoFrame
  /\ Goto("cmux", "recv")
  /\ UNCHANGED <<quietVars, srvVars, retVars, cltStream, cltSent, cltErrorC, cltRcvd, cltOther, served, readVars, lastWrite, cltClosed>>

\* a multiplexer that enqueues every frame on the ssh stream
cmux_send_ssh ==
  /\ pc["cmux"] = "send"
  /\ Len(cltIncomingC["ssh"]) < QueueCap
  /\ cltIncomingC' = [cltIncomingC EXCEPT !["ssh"] = Append(@, cltHold[2])]
  /\ cltHold' = NoFrame
  /\ Goto("cmux", "recv")
  /\ UNCHANGED <<quietVars, srvVars, retVars, cltStream, cltSent, cltErrorC, cltRcvd, cltOther, served, readVars, lastWrite, cltClosed>>

\* sshStream.incomingC <- payload, or agentStream.incomingC <- payload: blocks
\* while the channel is full
cmux_send ==
  /\ pc["cmux"] = "send"
  /\ Len(cltIncomingC[cltHold[1]]) < QueueCap
  /\ cltIncomingC' = [cltIncomingC EXCEPT ![cltHold[1]] = Append(@, cltHold[2])]
  /\ cltHold' = NoFrame
  /\ Goto("cmux", "recv")
  /\ UNCHANGED <<quietVars, srvVars, retVars, cltStream, cltSent, cltErrorC, cltRcvd, cltOther, served, readVars, lastWrite, cltClosed>>

\* agent.ServeAgent reads a request from agentRW (agentStream.Recv) ...
serveAgent_Recv(res) ==
  /\ pc["serveAgent"] = "recv"
  /\ res \in cltStream_Recv_cases("agent")
  /\ res = "frame"
  /\ cltGot' = [cltGot EXCEPT !["agent"] = Append(@, Head(cltIncomingC["agent"]))]
  /\ cltIncomingC' = [cltIncomingC EXCEPT !["agent"] = Tail(@)]
  /\ Goto("serveAgent", "reply")
  /\ UNCHANGED <<quietVars, srvVars, retVars, cltStream, cltSent, cltErrorC, cmuxVars, rBytes, readN, readAt, reads, lastRead, lastWrite, cltClosed>>

\* ... and writes the answer to agentRW (agentStream.Send); it ends when the
\* write fails
serveAgent_Send ==
  /\ pc["serveAgent"] = "reply"
  /\ IF cltSendOk
     THEN /\ cltSent' = Append(cltSent, <<"agent", Last(cltGot["agent"])>>)
          /\ Send_enter("serveAgent")
          /\ Goto("serveAgent", "send")
     ELSE /\ Goto("serveAgent", "exit")
          /\ UNCHANGED <<cltSent, sending>>
  /\ UNCHANGED <<cfgVars, srvVars, retVars, cltStream, cqVars, cmuxVars, readVars, lastWrite, cltClosed>>

\* agentStream.Send returns to agent.ServeAgent
serveAgent_Send_sent ==
  /\ pc["serveAgent"] = "send"
  /\ Send_return("serveAgent")
  /\ Goto("serveAgent", "recv")
  /\ UNCHANGED <<cfgVars, srvVars, cltVars>>

(***************************************************************************)
(* The caller's use of the connection DialHost returned.                   *)
(***************************************************************************)
\* the tag of the frames the caller's connection carries
ConnTag == IF side = "cluster" THEN "cluster" ELSE "ssh"

\* conn.Read(b) with len(b) = n: served from rBytes, or from sshStream.Recv
conn_Read(n) ==
  /\ pc["caller"] = "user"
  /\ readAt' = Len(SentWith(ConnTag))
  /\ IF rBytes # <<>>
     THEN /\ ReadWriter_Read_copy(rBytes, n)
          /\ UNCHANGED <<pc, readN>>
     ELSE /\ Goto("caller", "inRecv")
          /\ readN' = n
          /\ UNCHANGED <<rBytes, reads, lastRead>>
  /\ UNCHANGED <<quietVars, srvVars, retVars, cltStream, cltSent, cqVars, cmuxVars, cltGot, lastWrite, cltClosed>>

\* sshStream.Recv returns to the Read that called it
conn_Read_Recv(res) ==
  /\ pc["caller"] = "inRecv"
  /\ side = "client"
  /\ res \in cltStream_Recv_cases("ssh")
  /\ IF res = "frame"
     THEN /\ ReadWriter_Read_copy(Head(cltIncomingC["ssh"]), readN)
          /\ cltGot' = [cltGot EXCEPT !["ssh"] = Append(@, Head(cltIncomingC["ssh"]))]
          /\ cltIncomingC' = [cltIncomingC EXCEPT !["ssh"] = Tail(@)]
          /\ UNCHANGED cltErrorC
     ELSE /\ ReadWriter_Read_fail(Head(cltErrorC["ssh"]), readN)
          /\ cltErrorC' = [cltErrorC EXCEPT !["ssh"] = Tail(@)]
          /\ UNCHANGED <<cltGot, cltIncomingC>>
  /\ readN' = 0
  /\ Goto("caller", "user")
  /\ UNCHANGED <<quietVars, srvVars, retVars, cltStream, cltSent, cmuxVars, readAt, lastWrite, cltClosed>>

\* conn.Write(b): one frame of tag ssh through sshStream.Send
conn_Write(b) ==
  /\ pc["caller"] = "user"
  /\ load = "echo"
  /\ Len(SentWith(ConnTag)) < MaxWrites
  /\ IF cltSendOk
     THEN /\ cltSent' = Append(cltSent, <<ConnTag, b>>)
          /\ Send_enter("caller")
          /\ Goto("caller", "inSend")
          /\ UNCHANGED lastWrite
     ELSE /\ lastWrite' = <<0, "ConnectionProblem">>
          /\ UNCHANGED <<cltSent, sending, pc>>
  /\ UNCHANGED <<cfgVars, srvVars, retVars, cltStream, cqVars, cmuxVars, readVars, cltClosed>>

\* the Send returns, and Write reports the bytes of the payload as written
conn_Write_sent ==
  /\ pc["caller"] = "inSend"
  /\ Send_return("caller")
  /\ lastWrite' = <<Len(Last(SentWith(ConnTag))[2]), "nil">>
  /\ Goto("caller", "user")
  /\ UNCHANGED <<cfgVars, srvVars, retVars, cltStream, cltSent, cqVars, cmuxVars, readVars, cltClosed>>

\* conn.Close()
conn_Close ==
  /\ pc["caller"] = "user"
  /\ ReadWriter_Close
  /\ UNCHANGED <<quietVars, hVars, strmVars, qVars, muxVars, recvVars, closeSaw, panicked, destVars,
                 pc, retVars, cltStream, cltSent, cqVars, cmuxVars, readVars, lastWrite>>

(***************************************************************************)
(* Client.DialCluster and clusterStream.                                   *)
(***************************************************************************)
\* return nil, err
DialCluster_fail(err) ==
  /\ cltErr' = err
  /\ Goto("caller", "returned")
  /\ UNCHANGED cltConn

\* stream, err := c.clt.ProxyCluster(ctx)
DialCluster_ProxyCluster(ok) ==
  /\ pc["caller"] = "ProxyCluster"
  /\ IF ok
     THEN Goto("caller", "sendCluster") /\ UNCHANGED <<cltConn, cltErr>>
     ELSE DialCluster_fail("unable to establish proxy stream")
  /\ UNCHANGED <<quietVars, srvVars, cltDetails, firstResp, cltStream, cltSent, cqVars, cmuxVars, readVars, lastWrite, cltClosed>>

\* stream.Send(&ProxyClusterRequest{Cluster: cluster})
DialCluster_send(ok) ==
  /\ pc["caller"] = "sendCluster"
  /\ IF ok
     THEN /\ cltSent' = Append(cltSent, <<"name", <<>>>>)
          /\ Goto("caller", "peer")
          /\ UNCHANGED <<cltConn, cltErr>>
     ELSE /\ DialCluster_fail("failed to send cluster request")
          /\ UNCHANGED cltSent
  /\ UNCHANGED <<quietVars, srvVars, cltDetails, firstResp, cltStream, cqVars, cmuxVars, readVars, lastWrite, cltClosed>>

\* p, ok := peer.FromContext(stream.Context()), then
\* return streamutils.NewConn(streamRW, src, p.Addr), nil
DialCluster_peer(ok) ==
  /\ pc["caller"] = "peer"
  /\ IF ok
     THEN /\ cltConn' = "conn"
          /\ cltErr' = "nil"
          /\ Goto("caller", "user")
     ELSE DialCluster_fail("unable to retrieve peer information")
  /\ UNCHANGED <<quietVars, srvVars, cltDetails, firstResp, cltStream, cltSent, cqVars, cmuxVars, readVars, lastWrite, cltClosed>>

\* a clusterStream.Recv that reports the stream's error as its plain end
clusterStream_Recv_swallow(res) ==
  /\ pc["caller"] = "inRecv"
  /\ side = "cluster"
  /\ res \in {"eof", "error"}
  /\ cltStream \in {"open", res}
  /\ cltStream' = res
  /\ ReadWriter_Read_fail("eof", readN)
  /\ readN' = 0
  /\ Goto("caller", "user")
  /\ UNCHANGED <<quietVars, srvVars, retVars, cltSent, cqVars, cmuxVars, cltGot, readAt, lastWrite, cltClosed>>

\* what c.stream.Recv() may bring
ClusterResps == {"frame", "nilframe", "eof", "error"}

\* clusterStream.Recv returns to the Read that called it: the payload of the
\* frame, a bad-parameter error for a response without a frame, or the
\* stream's error
clusterStream_Recv(res) ==
  /\ pc["caller"] = "inRecv"
  /\ side = "cluster"
  /\ CASE res = "frame" ->
            /\ cltStream = "open"
            /\ \E payload \in ServerFrames("cluster") :
                 /\ cltRcvd' = [cltRcvd EXCEPT !["cluster"] = Append(@, payload)]
                 /\ cltGot' = [cltGot EXCEPT !["cluster"] = Append(@, payload)]
                 /\ ReadWriter_Read_copy(payload, readN)
            /\ UNCHANGED <<cltStream, cltOther>>
       [] res = "nilframe" ->
            /\ cltStream = "open"
            /\ load = "mixed"
            /\ cltOther' = TRUE
            /\ ReadWriter_Read_fail("received invalid frame", readN)
            /\ UNCHANGED <<cltStream, cltRcvd, cltGot>>
       [] OTHER ->
            /\ cltStream \in {"open", res}
            /\ cltStream' = res
            /\ ReadWriter_Read_fail(res, readN)
            /\ UNCHANGED <<cltRcvd, cltGot, cltOther>>
  /\ readN' = 0
  /\ Goto("caller", "user")
  /\ UNCHANGED <<quietVars, srvVars, retVars, cltSent, cqVars, cltHold, served, readAt, lastWrite, cltClosed>>

(***************************************************************************)
(* The sessions.                                                           *)
(***************************************************************************)
InitServer ==
  /\ hret = "none"
  /\ dialCalls = 0
  /\ conn = "none"
  /\ srvSent = <<>>
  /\ srvStream = "open"
  /\ srvIncomingC = [t \in Tags |-> <<>>]
  /\ srvDone = [t \in Tags |-> FALSE]
  /\ srvHold = NoFrame
  /\ srvRcvd = [t \in Tags \cup {"cluster"} |-> <<>>]
  /\ srvGot = [t \in Tags |-> <<>>]
  /\ srvOther = FALSE
  /\ closeSaw = [t \in Tasks |-> FALSE]
  /\ closeLog = <<FALSE, FALSE>>
  /\ panicked = "no"
  /\ destWritten = <<>>
  /\ destRead = 0

InitClient ==
  /\ cltConn = "nil"
  /\ cltDetails = "nil"
  /\ cltErr = "none"
  /\ firstResp = "none"
  /\ cltStream = "open"
  /\ cltSent = <<>>
  /\ cltIncomingC = [t \in Tags |-> <<>>]
  /\ cltErrorC = [t \in Tags |-> <<>>]
  /\ cltHold = NoFrame
  /\ cltRcvd = [t \in CltStreams |-> <<>>]
  /\ cltGot = [t \in CltStreams |-> <<>>]
  /\ cltOther = FALSE
  /\ served = 0
  /\ rBytes = <<>>
  /\ readN = 0
  /\ readAt = 0
  /\ reads = 0
  /\ lastRead = <<<<>>, "none", 0>>
  /\ lastWrite = <<0, "none">>
  /\ cltClosed = FALSE

\* the sessions explored: the program, what its peer sends, the settings
Sessions ==
  [side : {"server"}, load : {"mixed"}, fips : {FALSE}, keyring : {FALSE}]
    \cup [side : {"server"}, load : {"bulk"}, fips : BOOLEAN, keyring : {FALSE}]
    \cup [side : {"server"}, load : {"flood"}, fips : {FALSE}, keyring : {FALSE}]
    \cup [side : {"client"}, load : {"mixed"}, fips : {FALSE}, keyring : BOOLEAN]
    \cup [side : {"client"}, load : {"echo", "bulk"}, fips : {FALSE}, keyring : {FALSE}]
    \cup [side : {"cluster"}, load : {"mixed", "echo"}, fips : {FALSE}, keyring : {FALSE}]
    \cup [side : {"details"}, load : {"mixed"}, fips : BOOLEAN, keyring : {FALSE}]
    \cup [side : {"proxyCluster"}, load : {"mixed"}, fips : {FALSE}, keyring : {FALSE}]

Init ==
  /\ sending = {}
  /\ \E s \in Sessions :
       /\ side = s.side
       /\ load = s.load
       /\ fips = s.fips
       /\ keyring = s.keyring
  /\ pc = [t \in Tasks |-> IF t = "handler" /\ side = "server" THEN "peer"
                           ELSE IF t = "handler" /\ side = "details" THEN "GetClusterDetails"
                           ELSE IF t = "handler" /\ side = "proxyCluster" THEN "clusterRecvFirst"
                           ELSE IF t = "caller" /\ side = "client" THEN "ProxySSH"
                           ELSE IF t = "caller" /\ side = "cluster" THEN "ProxyCluster"
                           ELSE "off"]
  /\ InitServer
  /\ InitClient

Next ==
  \/ GetClusterDetails
  \/ \E msg \in ClusterFirstMsgs : ProxyCluster_recvFirst(msg)
  \/ \E ok \in BOOLEAN : ProxyCluster_DialSite(ok)
  \/ \E ok \in BOOLEAN : ProxyCluster_writeFirst(ok)
  \/ \E res \in {"frame", "nilframe", "eof", "cancelled"} : ProxyCluster_copyIn(res)
  \/ \E data \in BOOLEAN : ProxyCluster_copyOut(data)
  \/ ProxyCluster_ProxyConn_wait
  \/ \E ok \in BOOLEAN : ProxySSH_peer(ok)
  \/ \E ok \in BOOLEAN : ProxySSH_accessChecker(ok)
  \/ \E msg \in FirstMsgs : ProxySSH_recvFirst(msg)
  \/ ProxySSH_DialHost
  \/ \E ok \in BOOLEAN : ProxySSH_DialHost_return(ok)
  \/ ProxySSH_sendDetails
  \/ ProxyConn_wait
  \/ ProxyConn_close_select
  \/ ProxyConn_close_close
  \/ ProxySSH_defer_select
  \/ ProxySSH_defer_close
  \/ ProxySSH_deferred_return
  \/ \E why \in {"eof", "cancelled"} : mux_Recv_error(why)
  \/ \E tag \in Tags : mux_Recv_frame(tag)
  \/ mux_Recv_other
  \/ mux_send
  \/ mux_closeAgent_select
  \/ mux_closeAgent_close
  \/ mux_closeSsh_select
  \/ mux_closeSsh_close
  \/ ctx_cancel
  \/ \E res \in {"eof", "frame"} : ProxyConn_copyIn(res)
  \/ \E data \in BOOLEAN : ProxyConn_copyOut(data)
  \/ \E res \in {"eof", "frame"} : agentUser_Recv(res)
  \/ agentUser_Write
  \/ agentUser_Write_sent
  \/ ProxySSH_ProxyConn
  \/ ProxyConn_copyOut_sent
  \/ serveAgent_Send_sent
  \/ conn_Write_sent
  \/ \E ok \in BOOLEAN : DialHost_ProxySSH(ok)
  \/ \E ok \in BOOLEAN : DialHost_sendTarget(ok)
  \/ \E resp \in FirstResps : DialHost_recvFirst(resp)
  \/ \E err \in {"eof", "error"} : cmux_Recv_error(err)
  \/ cmux_sendError
  \/ cmux_deferred
  \/ cmux_Recv_ssh
  \/ cmux_Recv_agent
  \/ cmux_Recv_other
  \/ cmux_send
  \/ \E res \in {"error", "frame"} : serveAgent_Recv(res)
  \/ serveAgent_Send
  \/ \E n \in 1..MaxLen : conn_Read(n)
  \/ \E res \in {"error", "frame"} : conn_Read_Recv(res)
  \/ \E b \in Payloads : conn_Write(b)
  \/ conn_Close
  \/ \E ok \in BOOLEAN : DialCluster_ProxyCluster(ok)
  \/ \E ok \in BOOLEAN : DialCluster_send(ok)
  \/ \E ok \in BOOLEAN : DialCluster_peer(ok)
  \/ \E res \in ClusterResps : clusterStream_Recv(res)

Spec == Init /\ [][Next]_vars

\* every goroutine that can take a step takes it: the multiplexers enqueue
\* when there is room, and the consumers of the streams keep receiving
Fairness ==
  /\ WF_vars(mux_send)
  /\ WF_vars(\E res \in {"eof", "frame"} : ProxyConn_copyIn(res))
  /\ WF_vars(\E res \in {"eof", "frame"} : agentUser_Recv(res))
  /\ WF_vars(cmux_send)
  /\ WF_vars(\E n \in 1..MaxLen : conn_Read(n))
  /\ WF_vars(\E res \in {"error", "frame"} : conn_Read_Recv(res))
  /\ WF_vars(\E res \in {"error", "frame"} : serveAgent_Recv(res))
  /\ WF_vars(serveAgent_Send)

FairSpec == Spec /\ Fairness

(***************************************************************************)
(* Properties.                                                             *)
(***************************************************************************)
\* the errors ProxySSH returns when the peer cannot be authorised
AuthErrors ==
  {"BadParameter: unable to find peer", "AccessDenied: client is not authenticated"}

\* C1: when the peer information is missing or the access checker fails, the
\* handler has returned that error and Dialer.DialHost has not been called,
\* and is not called later, whatever the client sends
C1_AuthorizationBeforeDial ==
  hret \in AuthErrors => dialCalls = 0 /\ pc["handler"] = "done"

C1_Witness ==
  /\ hret = "AccessDenied: client is not authenticated"
  /\ pc["handler"] = "done"
  /\ dialCalls = 0

\* the details response is among the messages the server sent
DetailsSent == \E i \in 1..Len(srvSent) : srvSent[i][1] = "details"

\* C2: the details response is sent only once DialHost has returned a
\* connection; when DialHost fails no details response is ever sent and the
\* handler returns that error
C2_DetailsAfterDial ==
  /\ DetailsSent => conn \in {"open", "closed"} /\ dialCalls = 1
  /\ hret = "failed to dial target host" => ~DetailsSent /\ conn = "none"
  /\ conn = "none" /\ dialCalls = 1 /\ pc["handler"] = "done"
       => hret = "failed to dial target host"

C2_Witness ==
  /\ DetailsSent
  /\ pc["handler"] = "proxy"
  /\ conn = "open"

\* C3: when the stream ends before the first response, DialHost has returned
\* an error with a nil connection and nil details, and its multiplexer was
\* never started
C3_DialHostFirstRecvFails ==
  side = "client" /\ firstResp = "none" /\ cltStream # "open"
    => /\ pc["caller"] = "returned"
       /\ cltErr = "failed to receive cluster details response"
       /\ cltConn = "nil"
       /\ cltDetails = "nil"
       /\ pc["cmux"] = "off"

C3_Witness ==
  /\ side = "client"
  /\ firstResp = "none"
  /\ cltStream = "error"
  /\ pc["caller"] = "returned"


\* C4 as stated: once the first frame is sent, DialCluster returns a
\* connection and no error
C4_Original ==
  side = "cluster" /\ cltSent # <<>> /\ pc["caller"] \in {"returned", "user", "inRecv"}
    => cltConn = "conn" /\ cltErr = "nil"

\* C4 (amended): once the first frame is sent, DialCluster returns a connection
\* and no error when the stream's context carries peer information, and nil
\* with a bad-parameter error otherwise, whatever the server does; when the
\* server ends the stream with an error before any data, the first Read
\* returns zero bytes and a connection-problem error
C4_LazyFailure ==
  side = "cluster" =>
    /\ cltSent # <<>> /\ pc["caller"] = "returned"
         => cltConn = "nil" /\ cltErr = "unable to retrieve peer information"
    /\ pc["caller"] \in {"user", "inRecv"} => cltConn = "conn" /\ cltErr = "nil"
    /\ cltConn = "conn" /\ reads = 0 => cltStream = "open"
    /\ reads = 1 /\ pc["caller"] = "user" /\ cltStream = "error"
         => lastRead[1] = <<>> /\ lastRead[2] = "ConnectionProblem"

C4_Witness ==
  /\ side = "cluster"
  /\ cltConn = "conn"
  /\ reads = 1
  /\ cltStream = "error"
  /\ lastRead[2] = "ConnectionProblem"

\* C5: on a connection whose peer echoed the payload B back, the Write of B
\* reported Len(B) bytes and the Read of Len(B) bytes that followed it
\* returned exactly B and no error
C5_EchoRoundTrip ==
  \A B \in Payloads :
    /\ side \in {"client", "cluster"}
    /\ load = "echo"
    /\ SentWith(ConnTag) = <<<<ConnTag, B>>>>
    /\ cltRcvd[ConnTag] = <<B>>
    /\ reads = 1 /\ readAt = 1 /\ pc["caller"] = "user"
    /\ lastRead[3] = Len(B)
    => lastWrite = <<Len(B), "nil">> /\ lastRead = <<B, "nil", Len(B)>>

\* C7: what Recv has returned on a stream is a prefix of what the multiplexer
\* received for that stream's tag
C7_PerTagFifo ==
  \A t \in Tags :
    /\ IsPrefix(srvGot[t], srvRcvd[t])
    /\ IsPrefix(cltGot[t], cltRcvd[t])

C7_Witness ==
  /\ Len(srvGot["ssh"]) = MaxBulk
  /\ srvGot["ssh"] = srvRcvd["ssh"]

\* C8: a Close of a stream or connection that was closed before returns
\* without a panic and leaves it closed
C8_IdempotentClose ==
  /\ panicked # "sequential"
  /\ closeLog[1] => closeLog[2]
  /\ \A t \in Tags : srvDone[t] /\ pc["handler"] = "done" => closeLog[2]

C8_Witness ==
  /\ closeLog = <<TRUE, TRUE>>
  /\ panicked = "no"
  /\ side = "server"
  /\ pc["handler"] = "done"
  /\ pc["mux"] = "done"

\* C9: once a stream of the server is closed, Recv returns no frame of it
C9_EofAfterClose ==
  [][\A t \in Tags : srvDone[t] => srvGot'[t] = srvGot[t]]_vars

\* C10: a Read that is pending on a closed connection of the client, when
\* the multiplexer has ended, has something to return
C10_ReadsReturnAfterClose ==
  side = "client" /\ cltClosed /\ pc["caller"] = "inRecv" /\ pc["cmux"] = "done"
    => cltStream_Recv_cases("ssh") # {}

\* the consumer of a stream is receiving and the stream has not ended
SrvConsuming(t) ==
  /\ pc[IF t = "ssh" THEN "copyIn" ELSE "agentUser"] = "recv"
  /\ srvStream = "open"
  /\ ~srvDone[t]

CltConsuming(t) ==
  /\ side = "client"
  /\ cltStream = "open"
  /\ IF t = "ssh" THEN pc["caller"] \in {"user", "inRecv"}
     ELSE pc["serveAgent"] \in {"recv", "reply"}

\* C6: while the stream is open and the consumer of a tag keeps receiving,
\* every frame of that tag the multiplexer received is handed to the
\* consumer sooner or later, also when the channel was full in between
C6_NoFrameLoss ==
  \A t \in Tags :
    /\ []<>(SrvConsuming(t) => srvGot[t] = srvRcvd[t])
    /\ []<>(CltConsuming(t) => cltGot[t] = cltRcvd[t])

C6_Witness ==
  /\ Len(srvIncomingC["ssh"]) = QueueCap
  /\ pc["mux"] = "send"
  /\ srvHold[1] = "ssh"
  /\ pc["copyIn"] = "recv"
  /\ srvStream = "open"

\* C11: on one parent stream no two tasks are inside stream.Send at the same
\* time: the sends of the ssh stream, of the agent stream and of the
\* details message exclude one another
C11_SendSerialization == Cardinality(sending) <= 1

\* C12: on the client's host connection a Read returns the receive error
\* only after every ssh frame the multiplexer received before that error was
\* returned by Read: the error is never taken from errorC while frames
\* received earlier are still queued
C12_FramesBeforeError ==
  [][(side = "client" /\ Len(cltErrorC'["ssh"]) < Len(cltErrorC["ssh"]))
       => cltGot["ssh"] = cltRcvd["ssh"]]_vars

\* C13: on the client's host connection, a Read that finds every received
\* frame already read and the receive error delivered returns no bytes, with
\* io.EOF when the server ended the stream cleanly and with a connection
\* problem, never the raw error, when the stream failed in any other way
C13_TerminationClassification ==
  [][( /\ side = "client"
       /\ pc["caller"] = "inRecv" /\ pc'["caller"] = "user"
       /\ cltErrorC["ssh"] # <<>>
       /\ cltGot["ssh"] = cltRcvd["ssh"] )
       => /\ lastRead'[1] = <<>>
          /\ lastRead'[2] = (IF cltStream = "eof" THEN "EOF" ELSE "ConnectionProblem")]_vars

C13_Witness ==
  /\ side = "client"
  /\ cltStream = "error"
  /\ cltRcvd["ssh"] # <<>>
  /\ cltGot["ssh"] = cltRcvd["ssh"]
  /\ pc["caller"] = "user"
  /\ lastRead[1] = <<>>
  /\ lastRead[2] = "ConnectionProblem"

\* the frame of tag t the multiplexer holds and has not enqueued yet
HeldFor(hold, t) == IF hold # NoFrame /\ hold[1] = t THEN <<hold[2]>> ELSE <<>>

\* C14: a payload written through the ssh stream is sent with the ssh tag
\* and one written through the agent stream with the agent tag; a received
\* ssh frame is enqueued on the ssh stream only and a received agent frame
\* on the agent stream only.  On the server the ssh-tagged frames sent are
\* the reads from the destination, in order; on the client the agent-tagged
\* frames sent are the answers to the agent requests, in order, and there
\* are none without a keyring; on both sides what a stream returned and
\* still queues is exactly what was received with its tag
C14_TagIsolation ==
  /\ side = "server" =>
       /\ \A i \in 1..Len(srvSent) : srvSent[i][1] \in {"details", "ssh", "agent"}
       /\ SelectSeq(srvSent, LAMBDA m : m[1] = "ssh") = [k \in 1..destRead |-> <<"ssh", <<k>>>>]
       /\ \A t \in Tags : srvGot[t] \o srvIncomingC[t] \o HeldFor(srvHold, t) = srvRcvd[t]
  /\ side = "client" =>
       /\ \A i \in 1..Len(cltSent) : cltSent[i][1] \in {"target", "ssh", "agent"}
       /\ Len(SentWith("agent")) <= Len(cltGot["agent"])
       /\ \A i \in 1..Len(SentWith("agent")) : SentWith("agent")[i][2] = cltGot["agent"][i]
       /\ load # "echo" => SentWith("ssh") = <<>>
       /\ cltGot["ssh"] \o cltIncomingC["ssh"] \o HeldFor(cltHold, "ssh") = cltRcvd["ssh"]
       /\ IF keyring
          THEN cltGot["agent"] \o cltIncomingC["agent"] \o HeldFor(cltHold, "agent") = cltRcvd["agent"]
          ELSE cltGot["agent"] \o cltIncomingC["agent"] \o HeldFor(cltHold, "agent") = <<>>

C14_Witness ==
  /\ side = "client"
  /\ keyring
  /\ cltGot["ssh"] # <<>>
  /\ cltGot["agent"] # <<>>
  /\ SentWith("agent") # <<>>

\* C15: the client starts agent.ServeAgent at most once per DialHost
\* session, only in a session with a keyring that has received an agent
\* frame, and before the first agent frame is enqueued on the agent stream;
\* in a session without an agent frame it is never started
C15_LazyAgentOnce ==
  side = "client" =>
    /\ served <= 1
    /\ served = 1 => keyring /\ cltRcvd["agent"] # <<>>
    /\ pc["serveAgent"] # "off" => served = 1
    /\ cltIncomingC["agent"] # <<>> \/ cltGot["agent"] # <<>> => served = 1
    /\ cltRcvd["agent"] = <<>> => served = 0 /\ pc["serveAgent"] = "off"

C15_Witness ==
  /\ side = "client"
  /\ keyring
  /\ served = 1
  /\ Len(cltRcvd["agent"]) = 2
  /\ Len(cltGot["agent"]) = 2

\* C16: the cluster details the server reports, in the response of
\* GetClusterDetails and in the details message of a host session, carry
\* the configured FIPS flag, whatever the session and the frames received
C16_DetailsAreFipsFlag ==
  \A i \in 1..Len(srvSent) :
    srvSent[i][1] \in {"details", "GetClusterDetailsResponse"}
      => (srvSent[i][2] = <<1>>) = fips

C16_Witness ==
  /\ side = "details"
  /\ fips
  /\ hret = "nil"
  /\ srvSent = <<<<"GetClusterDetailsResponse", <<1>>>>>>

\* C17: in a host session the details message is the first message the
\* server sends and it is sent at most once: no ssh or agent frame is sent
\* before it, also not by the agent user while the Dialer is dialing
C17_DetailsFirst ==
  side = "server" =>
    /\ srvSent # <<>> => srvSent[1][1] = "details"
    /\ Cardinality({i \in 1..Len(srvSent) : srvSent[i][1] = "details"}) <= 1

\* the step of ProxySSH a position of the handler belongs to, in the order
\* of the code: authorization, first receive, dial, details, proxy, close
HandlerStep(l) ==
  CASE l \in {"off", "peer", "checker"} -> 1
    [] l = "recvFirst" -> 2
    [] l \in {"dial", "dialing", "sendDetails"} -> 3
    [] l = "detailsSent" -> 4
    [] l = "proxy" -> 5
    [] OTHER -> 6

TargetErrors ==
  {"BadParameter: first frame must contain a dial target",
   "BadParameter: dial target contains an invalid hostport"}

\* C19: when the first message carries no dial target or a host_port that
\* cannot be split, ProxySSH has returned the bad-parameter error, the
\* multiplexer and the agent user were never started, Dialer.DialHost was not
\* called and no response was sent
C19_ParameterErrorsFatal ==
  hret \in TargetErrors =>
    /\ pc["handler"] = "done"
    /\ pc["mux"] = "off"
    /\ pc["agentUser"] = "off"
    /\ dialCalls = 0
    /\ conn = "none"
    /\ srvSent = <<>>

C19_Witness ==
  /\ side = "server"
  /\ hret = "BadParameter: dial target contains an invalid hostport"
  /\ pc["handler"] = "done"
  /\ srvStream = "cancelled"

C21_FirstPayloadFirst ==
  side = "proxyCluster" =>
    /\ IsPrefix(destWritten, srvRcvd["cluster"])
    /\ \A i, j \in 1..Len(destWritten) : destWritten[i] = destWritten[j] => i = j
    /\ pc["copyIn"] = "clusterRecv" /\ conn = "open" => destWritten = srvRcvd["cluster"]

C21_Witness ==
  /\ side = "proxyCluster"
  /\ conn = "open"
  /\ destWritten = <<<<0>>, <<1>>>>

\* C22: in a cluster session, when Dialer.DialSite fails ProxyCluster has
\* returned that error, nothing was written to a destination, no response
\* was sent to the client and the copy loops were never started
C22_DialSiteFailure ==
  hret = "failed dialing cluster" =>
    /\ pc["handler"] = "done"
    /\ conn = "none"
    /\ destWritten = <<>>
    /\ srvSent = <<>>
    /\ pc["copyIn"] = "off" /\ pc["copyOut"] = "off"

C22_Witness ==
  /\ side = "proxyCluster"
  /\ hret = "failed dialing cluster"
  /\ pc["handler"] = "done"
  /\ srvRcvd["cluster"] = <<<<0>>>>

\* C23: when the receive of the server's multiplexer has returned an error
\* (here the end of the stream) and the multiplexer has stopped running,
\* both the agent stream and the ssh stream are closed, so that a Recv on
\* either of them returns io.EOF and no consumer stays blocked
C23_ServerTermination ==
  (side = "server" /\ srvStream = "eof" /\ pc["mux"] \in {"done", "crashed"})
    => \A t \in Tags : srvDone[t] /\ "eof" \in sshStream_Recv_cases(t)

\* C24: once the client's parent stream has terminated and the multiplexer
\* has closed the agent reader/writer and the connection, no Recv stays
\* blocked on the agent stream: agent.ServeAgent is not left waiting in a
\* Recv that has nothing to return
C24_ClientTermination ==
  (side = "client" /\ pc["cmux"] = "done" /\ pc["serveAgent"] = "recv")
    => cltStream_Recv_cases("agent") # {}

\* C25: on the client the terminal receive error of the parent stream is
\* delivered once and to the ssh stream only: nothing is ever put on the
\* agent stream's errorC, the ssh stream's errorC only grows by the one
\* send of the multiplexer that ends it, and that send finds room, so the
\* multiplexer does not block on it
C25_ErrorOnlyToSsh ==
  /\ [](side = "client" =>
          /\ cltErrorC["agent"] = <<>>
          /\ Len(cltErrorC["ssh"]) <= ErrorCap
          /\ pc["cmux"] = "sendError" => cltErrorC["ssh"] = <<>>)
  /\ [][side = "client" =>
          /\ Len(cltErrorC'["ssh"]) > Len(cltErrorC["ssh"]) =>
               /\ pc["cmux"] = "sendError" /\ pc'["cmux"] = "deferred"
               /\ cltErrorC'["ssh"] = <<cltStream>>
          /\ pc["cmux"] \in {"deferred", "done"} => pc'["cmux"] \in {"deferred", "done"}]_vars

C25_Witness ==
  /\ side = "client"
  /\ keyring
  /\ served = 1
  /\ pc["cmux"] = "done"
  /\ cltErrorC["ssh"] = <<"error">>
  /\ cltErrorC["agent"] = <<>>

\* C26: in a DialHost session without a keyring every agent frame received
\* is discarded: the multiplexer never holds one for the agent queue, the
\* agent queue stays empty, agent.ServeAgent is never started, and the ssh
\* frames received are all returned, queued or about to be queued whatever
\* the number of agent frames
C26_NilKeyringDiscards ==
  (side = "client" /\ ~keyring) =>
    /\ cltIncomingC["agent"] = <<>>
    /\ cltGot["agent"] = <<>>
    /\ HeldFor(cltHold, "agent") = <<>>
    /\ served = 0 /\ pc["serveAgent"] = "off"
    /\ SentWith("agent") = <<>>
    /\ cltGot["ssh"] \o cltIncomingC["ssh"] \o HeldFor(cltHold, "ssh") = cltRcvd["ssh"]

C26_Witness ==
  /\ side = "client"
  /\ ~keyring
  /\ Len(cltRcvd["agent"]) = MaxAgentReq
  /\ cltRcvd["ssh"] # <<>>
  /\ cltGot["ssh"] = cltRcvd["ssh"]
  /\ cltStream = "open"

\* the multiplexer holds a frame for a queue that is full
SrvMuxWaits == pc["mux"] = "send" /\ Len(srvIncomingC[srvHold[1]]) = QueueCap
CltMuxWaits == pc["cmux"] = "send" /\ Len(cltIncomingC[cltHold[1]]) = QueueCap

\* C27: every incoming queue holds at most 10 frames, and a multiplexer
\* whose frame is for a full queue waits at that enqueue: as long as the
\* queue is full it keeps the frame and receives nothing further from the
\* parent stream
C27_BoundedQueue ==
  /\ [](\A t \in Tags : /\ Len(srvIncomingC[t]) <= QueueCap
                        /\ Len(cltIncomingC[t]) <= QueueCap)
  /\ [][/\ SrvMuxWaits => srvHold' = srvHold /\ srvRcvd' = srvRcvd /\ srvOther' = srvOther
        /\ CltMuxWaits => cltHold' = cltHold /\ cltRcvd' = cltRcvd /\ cltOther' = cltOther]_vars

C27_Witness ==
  /\ side = "client"
  /\ CltMuxWaits
  /\ cltHold[1] = "ssh"
  /\ pc["caller"] \in {"user", "inRecv"}

\* C28: a multiplexer, of the server or of the client, that receives an
\* envelope with neither an ssh nor an agent frame enqueues nothing, closes
\* nothing and leaves the stream as it is; it is back at its receive, from
\* where the next envelope is taken
C28_UnknownFrameSkipped ==
  /\ [][/\ (side = "server" /\ ~srvOther /\ srvOther') =>
             /\ srvIncomingC' = srvIncomingC /\ srvDone' = srvDone
             /\ srvStream' = srvStream /\ srvRcvd' = srvRcvd /\ hret' = hret
             /\ pc'["mux"] = "recv" /\ srvHold' = NoFrame
        /\ (side = "client" /\ ~cltOther /\ cltOther') =>
             /\ cltIncomingC' = cltIncomingC /\ cltErrorC' = cltErrorC
             /\ cltStream' = cltStream /\ cltRcvd' = cltRcvd /\ cltClosed' = cltClosed
             /\ pc'["cmux"] = "recv" /\ cltHold' = NoFrame]_vars
  /\ [](/\ (side = "server" /\ srvOther /\ panicked = "no") => pc["mux"] = "recv"
        /\ (side = "client" /\ cltOther) => pc["cmux"] = "recv")

C28_Witness ==
  /\ side = "server"
  /\ srvOther
  /\ srvStream = "open"
  /\ pc["mux"] = "recv"
  /\ srvRcvd["ssh"] # <<>>
  /\ srvGot["ssh"] = srvRcvd["ssh"]

\* the tasks of a host session that are in a receive on the parent stream
SrvParentReaders ==
  {t \in {"handler"} : pc[t] = "recvFirst"} \cup {t \in {"mux"} : pc[t] = "recv"}
CltParentReaders ==
  {t \in {"caller"} : pc[t] = "recvFirst"} \cup {t \in {"cmux"} : pc[t] = "recv"}

\* C29: in a host session at most one task is in a receive on the parent
\* stream: the handshake receives while the multiplexer is not started, and
\* afterwards whatever is received from the parent stream is received by
\* the multiplexer, never by a Recv of the ssh or the agent stream
C29_SingleReader ==
  /\ [](/\ side = "server" => /\ Cardinality(SrvParentReaders) <= 1
                              /\ pc["handler"] \in {"peer", "checker", "recvFirst"} => pc["mux"] = "off"
        /\ side = "client" => /\ Cardinality(CltParentReaders) <= 1
                              /\ pc["caller"] \in {"ProxySSH", "sendTarget", "recvFirst"} => pc["cmux"] = "off")
  /\ [][/\ (side = "server" /\ srvRcvd' # srvRcvd) => pc["mux"] = "recv"
        /\ (side = "client" /\ cltRcvd' # cltRcvd) => pc["cmux"] = "recv"
        /\ (side = "client" /\ firstResp' # firstResp) => pc["caller"] = "recvFirst" /\ pc["cmux"] = "off"]_vars

C29_Witness ==
  /\ side = "client"
  /\ CltParentReaders = {"cmux"}
  /\ pc["caller"] = "inRecv"
  /\ pc["serveAgent"] = "recv"
  /\ cltRcvd["ssh"] # <<>>

\* C30: when two tasks call Close on the same stream of the server at the
\* same time, the multiplexer on a receive error and the handler through
\* its deferred Close or the teardown of the copier, done is closed once:
\* no interleaving has both of them reach close(s.done), which panics
C30_CloseOnceConcurrent == panicked # "concurrent"

\* C31: an enqueue of a multiplexer never panics, also on a stream that the
\* handler, the copier or the multiplexer has closed: only done is ever
\* closed, never incomingC, so the step that takes the held frame appends it
\* to its queue, and the only panics are those of close(s.done)
C31_NoSendOnClosedQueue ==
  /\ [](panicked \in {"no", "sequential", "concurrent"})
  /\ [][/\ (pc["mux"] = "send" /\ srvHold' # srvHold) =>
             /\ srvIncomingC' = [srvIncomingC EXCEPT ![srvHold[1]] = Append(@, srvHold[2])]
             /\ panicked' = panicked
        /\ (pc["cmux"] = "send" /\ cltHold' # cltHold) =>
             /\ cltIncomingC' = [cltIncomingC EXCEPT ![cltHold[1]] = Append(@, cltHold[2])]
             /\ panicked' = panicked]_vars

C31_Witness ==
  /\ side = "server"
  /\ panicked = "no"
  /\ srvDone["agent"]
  /\ pc["mux"] = "recv"
  /\ srvStream = "open"
  /\ pc["agentUser"] = "exit"
  /\ srvGot["agent"] = <<>>
  /\ srvIncomingC["agent"] # <<>>

\* C32: no half-duplex lingering: once utils.ProxyConn has seen a copy
\* direction end or the context cancelled, the teardown is not cut short;
\* whenever the handler has stopped after proxying, it has returned with the
\* destination connection closed and, in a host session, the ssh stream's
\* reader/writer closed
C32_NoHalfDuplexLingering ==
  (hret = "proxy ended" /\ pc["handler"] \in {"done", "crashed"}) =>
    /\ pc["handler"] = "done"
    /\ conn = "closed"
    /\ side = "server" => srvDone["ssh"]

\* C33: whenever ProxySSH has returned after the agent reader/writer was
\* constructed (the dial failed, the details could not be sent, or proxying
\* ended), the agent stream is closed, and an agent user still in Recv has
\* the end of the stream ready for it
C33_AgentClosedOnReturn ==
  (side = "server" /\ dialCalls = 1 /\ pc["handler"] = "done") =>
    /\ srvDone["agent"]
    /\ hret \in {"failed to dial target host", "failed sending cluster details", "proxy ended"}
    /\ pc["agentUser"] = "recv" => "eof" \in sshStream_Recv_cases("agent")

C33_Witness ==
  /\ side = "server"
  /\ dialCalls = 1
  /\ pc["handler"] = "done"
  /\ hret = "failed sending cluster details"
  /\ pc["agentUser"] = "recv"
  /\ srvIncomingC["agent"] = <<>>
  /\ srvDone["agent"]

\* C34: resource release after a successful dial: whenever ProxyCluster or
\* ProxySSH has returned after the Dialer handed back a destination
\* connection, that connection is closed, also when the first payload could
\* not be written or the cluster details could not be sent
C34_ConnClosedOnReturn ==
  (side \in {"server", "proxyCluster"} /\ pc["handler"] = "done" /\ conn # "none")
    => conn = "closed"

\* C35: the multiplexer always terminates: once ProxySSH has returned, the
\* multiplexer is never left at an enqueue that cannot complete, that is, at
\* a full queue whose consumer has stopped reading for good
C35_DispatcherTerminates ==
  (side = "server" /\ pc["handler"] = "done" /\ SrvMuxWaits) =>
    pc[IF srvHold[1] = "ssh" THEN "copyIn" ELSE "agentUser"] = "recv"

\* C36: independence of the two conversations: while the consumer of the ssh
\* stream is reading and the peer still has an ssh frame to deliver, the
\* multiplexer is not held at the agent stream's full queue with nobody
\* reading the agent stream, where it could never receive that ssh frame
C36_Independence ==
  (/\ side = "server"
   /\ SrvConsuming("ssh")
   /\ Len(srvRcvd["ssh"]) < MaxOf("ssh")) =>
    ~(SrvMuxWaits /\ srvHold[1] = "agent" /\ pc["agentUser"] # "recv")

\* C37: closing the client connection tears the session down: once the
\* caller has closed the connection DialHost returned, the multiplexer is not
\* left in stream.Recv on a parent stream that is still open while the
\* server has nothing further to send and keeps the stream open
C37_CloseTearsDown ==
  (/\ side = "client"
   /\ cltClosed
   /\ pc["cmux"] = "recv"
   /\ ServerFrames("ssh") = {}
   /\ ServerFrames("agent") = {}) => cltStream # "open"

====
